---- MODULE Spec2Model ----
(***************************************************************************)
(* Model of connect-mongo's MongoStore (src/src/lib/MongoStore.ts): a      *)
(* session store over one MongoDB collection.  Every public operation is   *)
(* an async function; a call occupies a slot of `calls` from its           *)
(* invocation until the caller has consumed its completion.  Between two   *)
(* awaits a call runs atomically (one action per resumption); calls in     *)
(* different slots interleave freely.  Time is in milliseconds.            *)
(***************************************************************************)
EXTENDS Integers, Sequences, FiniteSets, TLC

(***************************************************************************)
(* Bounds of the model.                                                    *)
(***************************************************************************)
MaxCalls == 2         \* calls issued in one behaviour
MaxTicks == 2         \* clock ticks in one behaviour

(***************************************************************************)
(* Program constants and the clock.                                        *)
(***************************************************************************)
DefaultTtl == 1209600           \* constructor default, seconds
MsPerSecond == 1000             \* the "* 1000" of set and touch
NoDate == 0                     \* an absent Date (the 0 touch reads for it)
TickMs == MsPerSecond \div 2    \* one clock tick
Epoch == 10 * TickMs            \* Date.now() when the store is constructed
Times == {Epoch + k * TickMs : k \in 0..MaxTicks}

SIDs == {"a", "b"}
Users == {"u1", "u2"}
Slots == {1, 2}                 \* two callers may be in flight at once
KeyOrder == <<"a", "b", "id:a", "id:b">>
Keys == {KeyOrder[i] : i \in 1..Len(KeyOrder)}

(***************************************************************************)
(* Session payloads handed in by the caller.  cookie is <<>> when the      *)
(* payload has no cookie, else <<c>> with c.expires a time or NoDate and   *)
(* c.rich saying that c is a Cookie instance (has toJSON).  iso says that  *)
(* the dates inside are text (what JSON.parse gives back).                 *)
(***************************************************************************)
CookieExpiry == Epoch + TickMs
Cookies == {<<>>,
            <<[rich |-> FALSE, expires |-> NoDate]>>,
            <<[rich |-> FALSE, expires |-> CookieExpiry]>>}
\* Cookie instances as express-session hands them over: toJSON() gives the
\* plain form
RichCookies == {<<[rich |-> TRUE, expires |-> NoDate]>>,
                <<[rich |-> TRUE, expires |-> CookieExpiry]>>}
\* an expiry that is still ahead when every tick of a behaviour has passed
LateExpiry == Epoch + (MaxTicks + 2) * TickMs
LateCookies == {<<>>, <<[rich |-> FALSE, expires |-> LateExpiry]>>}
\* no cookie, or a cookie that names an expiry
DatedCookies(cookies) == {c \in cookies : c = <<>> \/ c[1].expires # NoDate}
PayloadsOf(users, cookies, lms) ==
  [user : users, cookie : cookies, lastModified : lms, iso : {FALSE}]
Payloads(users, lms) == PayloadsOf(users, Cookies, lms)
NoSession == [user |-> "", cookie |-> <<>>, lastModified |-> NoDate, iso |-> FALSE]

VARIABLES options, now, collection, docs, calls, ncalls
vars == <<options, now, collection, docs, calls, ncalls>>

(***************************************************************************)
(* Stored forms of a payload.  A plain object is stored as it is: the      *)
(* payload record itself.                                                  *)
(***************************************************************************)
Text(v) == [kind |-> "text", val |-> v]          \* a JSON string
Custom(v) == [kind |-> "custom", val |-> v]      \* output of options.serialize
Cipher(x) == [kind |-> "cipher", val |-> x]      \* kruptein's output, a JSON string
Parsed(x) == [kind |-> "parsed", val |-> x]      \* JSON.parse of a non-session text
Kind(x) == IF "kind" \in DOMAIN x THEN x.kind ELSE "object"

HasDate(v) ==
  \/ v.lastModified # NoDate
  \/ v.cookie # <<>> /\ v.cookie[1].expires # NoDate

\* Cookie.toJSON(): the plain form of a cookie
toJSON(cookie) ==
  IF cookie = <<>> THEN <<>> ELSE <<[cookie[1] EXCEPT !.rich = FALSE]>>

\* the copy made without converting the cookie
defaultSerializeFunction_KeepsCookie(session) == session

defaultSerializeFunction(session) ==
  [session EXCEPT !.cookie = toJSON(session.cookie)]

JSONstringify(session) ==
  Text([session EXCEPT !.cookie = toJSON(session.cookie)])

\* JSON.parse throws on what is not JSON text
JSONparseThrows(x) == Kind(x) \notin {"text", "cipher"}

JSONparse(x) ==
  IF Kind(x) = "text"
  THEN [x.val EXCEPT !.iso = HasDate(x.val)]
  ELSE Parsed(x.val)

unit(x) == x

\* stand-ins for a caller-supplied pair, one that round-trips a payload to
\* itself with its cookie in plain form
customSerialize(session) == Custom([session EXCEPT !.cookie = toJSON(session.cookie)])
customUnserialize(x) == IF Kind(x) = "custom" THEN x.val ELSE Parsed(x)

\* stringify === false looked at before the caller's pair
computeTransformFunctions_StringifyFirst ==
  IF options.stringify = FALSE
  THEN [serialize |-> "default", unserialize |-> "unit"]
  ELSE IF options.serialize \/ options.unserialize
       THEN [serialize |-> IF options.serialize THEN "custom" ELSE "default",
             unserialize |-> IF options.unserialize THEN "custom" ELSE "unit"]
       ELSE [serialize |-> "JSON.stringify", unserialize |-> "JSON.parse"]

computeTransformFunctions ==
  IF options.serialize \/ options.unserialize
  THEN [serialize |-> IF options.serialize THEN "custom" ELSE "default",
        unserialize |-> IF options.unserialize THEN "custom" ELSE "unit"]
  ELSE IF options.stringify = FALSE
       THEN [serialize |-> "default", unserialize |-> "unit"]
       ELSE [serialize |-> "JSON.stringify", unserialize |-> "JSON.parse"]

serialize(session) ==
  CASE computeTransformFunctions.serialize = "custom" -> customSerialize(session)
    [] computeTransformFunctions.serialize = "default" -> defaultSerializeFunction(session)
    [] OTHER -> JSONstringify(session)

unserializeThrows(x) ==
  computeTransformFunctions.unserialize = "JSON.parse" /\ JSONparseThrows(x)

unserialize(x) ==
  CASE computeTransformFunctions.unserialize = "custom" -> customUnserialize(x)
    [] computeTransformFunctions.unserialize = "unit" -> unit(x)
    [] OTHER -> JSONparse(x)

\* a JavaScript string: setting a property on it throws in strict mode
IsPrimitive(s) == Kind(s) \in {"text", "cipher"}

transformId(sid) == IF sid = "a" THEN "id:a" ELSE "id:b"

computeStorageId(sid) ==
  IF options.transformId THEN transformId(sid) ELSE sid

(***************************************************************************)
(* The collection.  A document is [session, expires, lastModified];        *)
(* docs[k] is <<>> when no document has _id k, else <<doc>>.  In a set of   *)
(* fields to write, session is <<>> (not written) or <<payload field>>.    *)
(***************************************************************************)
NoFields == [session |-> <<>>, expires |-> NoDate, lastModified |-> NoDate]
NoDoc == [session |-> Parsed(<<>>), expires |-> NoDate, lastModified |-> NoDate]

\* a $set that leaves alone a lastModified the document has already
ApplySet_KeepsLastModified(doc, fields) ==
  [session |-> IF fields.session # <<>> THEN fields.session[1] ELSE doc.session,
   expires |-> IF fields.expires # NoDate THEN fields.expires ELSE doc.expires,
   lastModified |-> IF doc.lastModified # NoDate THEN doc.lastModified
                    ELSE fields.lastModified]

\* { $set: fields } applied to a document: only the fields given are written
ApplySet(doc, fields) ==
  [session |-> IF fields.session # <<>> THEN fields.session[1] ELSE doc.session,
   expires |-> IF fields.expires # NoDate THEN fields.expires ELSE doc.expires,
   lastModified |-> IF fields.lastModified # NoDate
                    THEN fields.lastModified ELSE doc.lastModified]

\* the filter written with $gte: a record is still read at the instant it expires
NotExpired_Gte(doc, date) ==
  \/ doc.expires = NoDate
  \/ doc.expires >= date

\* the filter of get and all: expires absent, or expires > new Date()
NotExpired(doc, date) ==
  \/ doc.expires = NoDate
  \/ doc.expires > date

findOne(key, date) ==
  IF docs[key] # <<>> /\ NotExpired(docs[key][1], date) THEN docs[key] ELSE <<>>

RECURSIVE FindFrom(_, _)
FindFrom(i, date) ==
  IF i > Len(KeyOrder) THEN <<>>
  ELSE LET k == KeyOrder[i]
       IN  (IF docs[k] # <<>> /\ NotExpired(docs[k][1], date) THEN docs[k] ELSE <<>>)
           \o FindFrom(i + 1, date)

find(date) == FindFrom(1, date)

\* the count taken with the filter of get and all
countDocuments_Live == Cardinality({k \in Keys : docs[k] # <<>> /\ NotExpired(docs[k][1], now)})

\* countDocuments() without a filter: every document of the collection
countDocuments == Cardinality({k \in Keys : docs[k] # <<>>})

(***************************************************************************)
(* Calls.  out is what the call has done to the outside so far, in order:  *)
(* the notifications it emitted and the invocations of its callback.       *)
(***************************************************************************)
IdleCall ==
  [op |-> "idle", pc |-> "idle", sid |-> "", session |-> NoSession,
   s |-> NoFields, found |-> <<>>, date |-> NoDate, out |-> <<>>]

Emitted(name) == [ev |-> name, err |-> "none", val |-> <<>>]
CallbackError(err) == [ev |-> "callback", err |-> err, val |-> <<>>]
CallbackValue(val) == [ev |-> "callback", err |-> "none", val |-> val]

\* a completed call: what stays of it is what it was asked (the payload of a
\* set is dropped: the store holds it), what it did to the outside, the
\* Date it computed with and what it read from the store
Done(c, outs) ==
  [IdleCall EXCEPT !.op = c.op, !.pc = "done", !.sid = c.sid, !.date = c.date,
                   !.session = IF c.op = "touch" THEN c.session ELSE NoSession,
                   !.found = c.found, !.out = c.out \o outs]

CipherFailed(c) == \E i \in 1..Len(c.out) : c.out[i] = CallbackError("cipher")

\* a caller takes the first slot that is free: one never used, or one whose
\* call has completed
Free(p) == calls[p].pc \in {"idle", "done"}
Idle(p) ==
  /\ Free(p)
  /\ \A q \in Slots : q < p => ~Free(q)
  /\ ncalls < MaxCalls
Start(p, c) ==
  /\ calls' = [calls EXCEPT ![p] = c]
  /\ ncalls' = ncalls + 1
  /\ UNCHANGED <<options, now, collection, docs>>
At(p, op, pc) == calls[p].op = op /\ calls[p].pc = pc
Step(p, c) == calls' = [calls EXCEPT ![p] = c]

(***************************************************************************)
(* get                                                                     *)
(***************************************************************************)
\* lines 249-258: what get does once it holds the record (or null)
GetFinish(c) ==
  IF c.found = <<>>
  THEN IF options.touchAfter > 0
       THEN Done(c, <<CallbackError("type")>>)     \* session.lastModified of null
       ELSE Done(c, <<Emitted("get"), CallbackValue(<<>>)>>)
  ELSE LET session == c.found[1] IN
       IF unserializeThrows(session.session)
       THEN Done(c, <<CallbackError("parse")>>)
       ELSE LET s == unserialize(session.session) IN
            IF options.touchAfter > 0 /\ session.lastModified # NoDate
            THEN IF IsPrimitive(s)
                 THEN Done(c, <<CallbackError("type")>>)
                 ELSE LET t == IF "lastModified" \in DOMAIN s
                               THEN [s EXCEPT !.lastModified = session.lastModified]
                               ELSE s
                      IN  Done(c, <<Emitted("get"), CallbackValue(<<t>>)>>)
            ELSE Done(c, <<Emitted("get"), CallbackValue(<<s>>)>>)

CallGet(p, sid) ==
  /\ Idle(p)
  /\ Start(p, [IdleCall EXCEPT !.op = "get", !.pc = "find", !.sid = sid])

\* lines 224-231, and 249-258 when there is nothing to decrypt
GetFind(p) ==
  /\ At(p, "get", "find")
  /\ \/ Step(p, Done(calls[p], <<CallbackError("db")>>))
     \/ LET c == [calls[p] EXCEPT !.found = findOne(computeStorageId(calls[p].sid), now),
                                  !.date = now]
        IN  IF options.secret /\ c.found # <<>>
            THEN Step(p, [c EXCEPT !.pc = "decrypt"])
            ELSE Step(p, GetFinish(c))
  /\ UNCHANGED <<options, now, collection, docs, ncalls>>

\* lines 232-248, then 249-258
GetDecrypt(p) ==
  /\ At(p, "get", "decrypt")
  /\ LET c == calls[p]
         session == c.found[1]
     IN  \/ /\ Kind(session.session) = "cipher"
            /\ ~unserializeThrows(session.session)
            /\ Step(p, GetFinish([c EXCEPT !.found = <<[session EXCEPT !.session = session.session.val]>>]))
         \/ Step(p, GetFinish([c EXCEPT !.out = c.out \o <<CallbackError("cipher")>>]))
  /\ UNCHANGED <<options, now, collection, docs, ncalls>>

(***************************************************************************)
(* set                                                                     *)
(***************************************************************************)
CookieExpires(session) ==
  IF session.cookie = <<>> THEN NoDate ELSE session.cookie[1].expires

\* the ttl added as if it were milliseconds
ComputeExpires_NoScale(session) ==
  IF CookieExpires(session) # NoDate
  THEN CookieExpires(session)
  ELSE now + options.ttl

\* lines 286-297 and 369-374: the expiry that set and touch write
ComputeExpires(session) ==
  IF CookieExpires(session) # NoDate
  THEN CookieExpires(session)
  ELSE now + options.ttl * MsPerSecond

\* lines 277-280
StripLastModified(session) ==
  IF options.touchAfter > 0 /\ session.lastModified # NoDate
  THEN [session EXCEPT !.lastModified = NoDate]
  ELSE session

\* lines 281-301: the document set builds before its first await
SetFields(session) ==
  [session |-> <<serialize(StripLastModified(session))>>,
   expires |-> ComputeExpires(session),
   lastModified |-> IF options.touchAfter > 0 THEN now ELSE NoDate]

CallSet(p, sid, session) ==
  /\ Idle(p)
  /\ Start(p, [IdleCall EXCEPT !.op = "set", !.sid = sid,
                               !.session = StripLastModified(session),
                               !.pc = IF options.secret THEN "encrypt" ELSE "write",
                               !.s = SetFields(session), !.date = now])

\* lines 302-315
SetEncrypt(p) ==
  /\ At(p, "set", "encrypt")
  /\ LET c == calls[p] IN
     \/ Step(p, [c EXCEPT !.pc = "write", !.s.session = <<Cipher(c.s.session[1])>>])
     \/ Step(p, [c EXCEPT !.pc = "write",
                          !.out = c.out \o <<CallbackError("cipher")>>])
  /\ UNCHANGED <<options, now, collection, docs, ncalls>>

\* the count of matched documents read in place of the count of inserted ones
upsertedCount_Matched(key) == IF docs[key] = <<>> THEN 0 ELSE 1

\* rawResp.upsertedCount of an upsert on key: 1 when it inserts
upsertedCount(key) == IF docs[key] = <<>> THEN 1 ELSE 0

\* lines 316-334: updateOne({_id}, {$set: s}, {upsert: true})
SetWrite(p) ==
  /\ At(p, "set", "write")
  /\ LET c == calls[p]
         key == computeStorageId(c.sid)
     IN  \/ /\ Step(p, Done(c, <<CallbackError("db")>>))
            /\ UNCHANGED <<collection, docs>>
         \/ /\ docs' = [docs EXCEPT ![key] =
                          <<ApplySet(IF docs[key] = <<>> THEN NoDoc ELSE docs[key][1], c.s)>>]
            /\ collection' = [collection EXCEPT !.exists = TRUE]
            /\ Step(p, Done(c, <<Emitted(IF upsertedCount(key) > 0 THEN "create" ELSE "update"),
                                 Emitted("set"), CallbackValue(<<>>)>>))
  /\ UNCHANGED <<options, now, ncalls>>

(***************************************************************************)
(* touch                                                                   *)
(***************************************************************************)
\* the threshold compared in seconds against an elapsed time in milliseconds
TouchSkips_NoScale(session) ==
  /\ options.touchAfter > 0
  /\ session.lastModified > 0
  /\ now - session.lastModified < options.touchAfter

\* lines 351-367: TRUE when touch returns early without writing
TouchSkips(session) ==
  /\ options.touchAfter * MsPerSecond > 0
  /\ session.lastModified > 0
  /\ now - session.lastModified < options.touchAfter * MsPerSecond

\* lines 346-374: updateFields
TouchFields(session) ==
  [session |-> IF CookieExpires(session) # NoDate THEN <<serialize(session)>> ELSE <<>>,
   expires |-> ComputeExpires(session),
   lastModified |-> IF options.touchAfter * MsPerSecond > 0 /\ session.lastModified > 0
                    THEN now ELSE NoDate]

CallTouch(p, sid, session) ==
  /\ Idle(p)
  /\ LET c == [IdleCall EXCEPT !.op = "touch", !.sid = sid, !.session = session,
                               !.date = now]
     IN  IF session.lastModified # NoDate /\ session.iso
         THEN Start(p, Done(c, <<CallbackError("type")>>))   \* getTime of a string
         ELSE IF TouchSkips(session)
              THEN Start(p, Done(c, <<CallbackValue(<<>>)>>))
              ELSE Start(p, [c EXCEPT !.pc = "write", !.s = TouchFields(session)])

\* the update made with upsert: true
Updated_Upsert(key, fields) ==
  <<ApplySet(IF docs[key] = <<>> THEN NoDoc ELSE docs[key][1], fields)>>

\* updateOne({_id: key}, {$set: fields}) without upsert: the document after
Updated(key, fields) ==
  IF docs[key] # <<>> THEN <<ApplySet(docs[key][1], fields)>> ELSE <<>>

\* rawResp.modifiedCount: 1 when a document matched and the update changed it
modifiedCount(key, fields) ==
  IF docs[key] # <<>> /\ Updated(key, fields) # docs[key] THEN 1 ELSE 0

\* lines 375-389: updateOne({_id}, {$set: updateFields})
TouchWrite(p) ==
  /\ At(p, "touch", "write")
  /\ LET c == calls[p]
         key == computeStorageId(c.sid)
     IN  \/ /\ Step(p, Done(c, <<CallbackError("db")>>))
            /\ UNCHANGED docs
         \/ /\ docs' = [docs EXCEPT ![key] = Updated(key, c.s)]
            /\ IF modifiedCount(key, c.s) = 0
               THEN Step(p, Done(c, <<CallbackError("notfound")>>))
               ELSE Step(p, Done(c, <<Emitted("touch"), CallbackValue(<<>>)>>))
  /\ UNCHANGED <<options, now, collection, ncalls>>

(***************************************************************************)
(* all, destroy, length, clear                                             *)
(***************************************************************************)
CallAll(p) ==
  /\ Idle(p)
  /\ Start(p, [IdleCall EXCEPT !.op = "all", !.pc = "find"])

RECURSIVE UnserializeAll(_)
UnserializeAll(ds) ==
  IF ds = <<>> THEN <<>>
  ELSE <<unserialize(Head(ds).session)>> \o UnserializeAll(Tail(ds))

\* lines 408-431
AllFind(p) ==
  /\ At(p, "all", "find")
  /\ LET c == [calls[p] EXCEPT !.found = find(now), !.date = now] IN
     \/ Step(p, Done(calls[p], <<CallbackError("db")>>))
     \/ /\ \A i \in 1..Len(c.found) : ~unserializeThrows(c.found[i].session)
        /\ Step(p, Done(c, <<Emitted("all"), CallbackValue(<<UnserializeAll(c.found)>>)>>))
  /\ UNCHANGED <<options, now, collection, docs, ncalls>>

CallDestroy(p, sid) ==
  /\ Idle(p)
  /\ Start(p, [IdleCall EXCEPT !.op = "destroy", !.pc = "delete", !.sid = sid])

\* lines 441-452
DestroyDelete(p) ==
  /\ At(p, "destroy", "delete")
  /\ \/ /\ Step(p, Done(calls[p], <<CallbackError("db")>>))
        /\ UNCHANGED docs
     \/ /\ docs' = [docs EXCEPT ![computeStorageId(calls[p].sid)] = <<>>]
        /\ Step(p, Done(calls[p], <<Emitted("destroy"), CallbackValue(<<>>)>>))
  /\ UNCHANGED <<options, now, collection, ncalls>>

CallLength(p) ==
  /\ Idle(p)
  /\ Start(p, [IdleCall EXCEPT !.op = "length", !.pc = "count"])

\* lines 460-464
LengthCount(p) ==
  /\ At(p, "length", "count")
  /\ \/ Step(p, Done(calls[p], <<CallbackError("db")>>))
     \/ Step(p, Done(calls[p], <<CallbackValue(<<countDocuments>>)>>))
  /\ UNCHANGED <<options, now, collection, docs, ncalls>>

CallClear(p) ==
  /\ Idle(p)
  /\ Start(p, [IdleCall EXCEPT !.op = "clear", !.pc = "drop"])

\* lines 472-475: drop() removes the collection with its indexes, and is
\* rejected ("ns not found") when there is no collection
ClearDrop(p) ==
  /\ At(p, "clear", "drop")
  /\ \/ /\ Step(p, Done(calls[p], <<CallbackError("db")>>))
        /\ UNCHANGED <<collection, docs>>
     \/ /\ collection.exists
        /\ docs' = [k \in Keys |-> <<>>]
        /\ collection' = [exists |-> FALSE, ttlIndex |-> FALSE]
        /\ Step(p, Done(calls[p], <<CallbackValue(<<>>)>>))
  /\ UNCHANGED <<options, now, ncalls>>

(***************************************************************************)
(* The environment: the clock advances, and the TTL monitor of the         *)
(* backing store reclaims an expired document                              *)
(* of a collection that has the { expires: 1 } index.                      *)
(***************************************************************************)
Tick ==
  /\ now < Epoch + MaxTicks * TickMs
  /\ now' = now + TickMs
  /\ UNCHANGED <<options, collection, docs, calls, ncalls>>

Reclaim(k) ==
  /\ collection.ttlIndex
  /\ docs[k] # <<>>
  /\ docs[k][1].expires # NoDate
  /\ docs[k][1].expires <= now
  /\ docs' = [docs EXCEPT ![k] = <<>>]
  /\ UNCHANGED <<options, now, collection, calls, ncalls>>

(***************************************************************************)
(* Construction (lines 133-197) and the specification.                     *)
(***************************************************************************)
\* the options object after the defaults of the constructor are applied;
\* ttl = NoDate stands for a caller who gives no ttl
MkOptions(ttl, touchAfter, stringify, ser, unser, tid, secret, idx) ==
  [ttl |-> IF ttl = NoDate THEN DefaultTtl ELSE ttl,
   touchAfter |-> touchAfter,
   stringify |-> stringify,
   serialize |-> ser,
   unserialize |-> unser,
   transformId |-> tid,
   secret |-> secret,
   createAutoRemoveIdx |-> idx]

\* the configurations explored: every combination of idle-touch tracking,
\* encryption and serialization mode with a short ttl, and the default ttl
\* with an id transform and no auto-remove index
CoreOptions ==
  {MkOptions(1, ta, str, FALSE, FALSE, FALSE, sec, TRUE) :
     ta \in {0, 1}, str \in BOOLEAN, sec \in BOOLEAN}
EdgeOptions ==
  {MkOptions(NoDate, ta, TRUE, FALSE, FALSE, TRUE, FALSE, FALSE) : ta \in {0, 1}}

\* every way of giving or leaving out serialize, unserialize and stringify
ModeOptions ==
  {MkOptions(1, 0, str, ser, unser, FALSE, FALSE, TRUE) :
     str \in BOOLEAN, ser \in BOOLEAN, unser \in BOOLEAN}
\* JSON, copy and a caller's pair, with idle-touch tracking
IdleModeOptions ==
  {MkOptions(1, 1, str, pair, pair, FALSE, FALSE, TRUE) :
     str \in BOOLEAN, pair \in BOOLEAN}

InitWith(opts) ==
  /\ options \in opts
  /\ now = Epoch
  /\ collection = [exists |-> options.createAutoRemoveIdx,
                   ttlIndex |-> options.createAutoRemoveIdx]
  /\ docs = [k \in Keys |-> <<>>]
  /\ calls = [p \in Slots |-> IdleCall]
  /\ ncalls = 0

Init == InitWith(CoreOptions \cup EdgeOptions)
\* one client of one session, under two configurations: a short ttl with
\* idle-touch tracking and encryption, and the defaults with an id transform
InitSmall ==
  InitWith({MkOptions(1, 1, TRUE, FALSE, FALSE, FALSE, TRUE, TRUE),
            MkOptions(NoDate, 0, TRUE, FALSE, FALSE, TRUE, FALSE, FALSE)})
\* every serialization mode without encryption, and one store that encrypts
InitModes ==
  InitWith(ModeOptions \cup IdleModeOptions \cup {MkOptions(1, 0, TRUE, FALSE, FALSE, FALSE, TRUE, TRUE)})
\* idle-touch tracking on, with the default ttl
InitIdle ==
  InitWith({MkOptions(NoDate, 1, TRUE, FALSE, FALSE, FALSE, sec, TRUE) : sec \in BOOLEAN})
\* idle-touch tracking off: every touch goes to the store
InitNoIdle == InitWith({o \in CoreOptions : o.touchAfter = 0})

\* the lastModified a caller may hand to touch: none, or any instant so far
LastModifieds == {NoDate} \cup {t \in Times : t <= now}

NextOf(sids, users, cookies) ==
  \/ \E p \in Slots, sid \in sids : CallGet(p, sid)
  \/ \E p \in Slots : GetFind(p)
  \/ \E p \in Slots : GetDecrypt(p)
  \/ \E p \in Slots, sid \in sids, session \in PayloadsOf(users, cookies, {NoDate, Epoch}) :
       CallSet(p, sid, session)
  \/ \E p \in Slots : SetEncrypt(p)
  \/ \E p \in Slots : SetWrite(p)
  \/ \E p \in Slots, sid \in sids, session \in PayloadsOf(users, cookies, LastModifieds) :
       CallTouch(p, sid, session)
  \/ \E p \in Slots : TouchWrite(p)
  \/ \E p \in Slots : CallAll(p)
  \/ \E p \in Slots : AllFind(p)
  \/ \E p \in Slots, sid \in sids : CallDestroy(p, sid)
  \/ \E p \in Slots : DestroyDelete(p)
  \/ \E p \in Slots : CallLength(p)
  \/ \E p \in Slots : LengthCount(p)
  \/ \E p \in Slots : CallClear(p)
  \/ \E p \in Slots : ClearDrop(p)
  \/ Tick
  \/ \E k \in Keys : Reclaim(k)

Next(sids, users) == NextOf(sids, users, Cookies)

\* a client that only stores and reads sessions
NextSetGet(sids, users, cookies) ==
  \/ \E p \in Slots, sid \in sids : CallGet(p, sid)
  \/ \E p \in Slots : GetFind(p)
  \/ \E p \in Slots : GetDecrypt(p)
  \/ \E p \in Slots, sid \in sids, session \in PayloadsOf(users, cookies, {NoDate, Epoch}) :
       CallSet(p, sid, session)
  \/ \E p \in Slots : SetEncrypt(p)
  \/ \E p \in Slots : SetWrite(p)
  \/ Tick
  \/ \E k \in Keys : Reclaim(k)

Spec == Init /\ [][Next(SIDs, {"u1"})]_vars
SpecNoIdle == InitNoIdle /\ [][Next(SIDs, {"u1"})]_vars
SpecSmall == InitSmall /\ [][NextOf({"a"}, {"u1"}, DatedCookies(Cookies))]_vars
\* the TTL monitor of the backing store runs again and again: an expired
\* document of a collection that has the index does not stay for ever
SpecSweep == SpecSmall /\ \A k \in Keys : WF_vars(Reclaim(k))
SpecIdle == InitIdle /\ [][NextOf({"a"}, {"u1"}, Cookies \cup LateCookies)]_vars
SpecModes == InitModes /\ [][NextSetGet({"a"}, {"u1"}, DatedCookies(Cookies \cup RichCookies))]_vars

(***************************************************************************)
(* Vocabulary of the properties.                                           *)
(***************************************************************************)
IsCallback(o) == o.ev = "callback"
Callbacks(c) == SelectSeq(c.out, IsCallback)
Completed(p) == calls[p].pc = "done"
\* the call reached the store and the store answered
Answered(c) == \A i \in 1..Len(c.out) : c.out[i] # CallbackError("db")
Key(p) == computeStorageId(calls[p].sid)
\* a record that get and all would return at this instant
Live(key) == docs[key] # <<>> /\ NotExpired(docs[key][1], now)
\* slot p takes a step that completes the call it holds or begins
Completes(p, op) ==
  /\ calls'[p] # calls[p]
  /\ calls'[p].op = op
  /\ calls'[p].pc = "done"
\* the second slot was never used: no two calls overlapped
Sequential == calls[2].pc = "idle"

(***************************************************************************)
(* C1: a get that finds no record, or only a record whose expires is <=    *)
(* the Date of the query, completes with success and a null session,       *)
(* never with an error, whatever touchAfter and the encryption are.        *)
(* Violated: with touchAfter > 0 line 251 reads session.lastModified of    *)
(* null and the call ends in callback(TypeError).                          *)
(***************************************************************************)
C1_AbsentGetSucceedsWithNull ==
  \A p \in Slots :
    (Completed(p) /\ calls[p].op = "get" /\ calls[p].date # NoDate
       /\ calls[p].found = <<>>)
    => calls[p].out = <<Emitted("get"), CallbackValue(<<>>)>>

(***************************************************************************)
(* C2: every completed call has invoked its callback exactly once.         *)
(* Violated: after a cipher failure get and set invoke callback(error) at  *)
(* lines 246 and 313 and then go on to a second invocation.                *)
(***************************************************************************)
C2_CallbackExactlyOnce ==
  \A p \in Slots : Completed(p) => Len(Callbacks(calls[p])) = 1

(***************************************************************************)
(* C3: whatever get or all hands to its callback was read from records     *)
(* that carry an expires later than the Date of the read; records that     *)
(* have expired and are still in the collection are left out.              *)
(***************************************************************************)
C3_ReadsNeverReturnExpired ==
  \A p \in Slots :
    (Completed(p) /\ calls[p].op \in {"get", "all"})
    => /\ \A i \in 1..Len(calls[p].found) :
            /\ calls[p].found[i].expires # NoDate
            /\ calls[p].found[i].expires > calls[p].date
       /\ \A i \in 1..Len(calls[p].out) :
            (IsCallback(calls[p].out[i]) /\ calls[p].out[i].val # <<>>)
            => IF calls[p].op = "get"
               THEN calls[p].found # <<>>
               ELSE Len(calls[p].out[i].val[1]) = Len(calls[p].found)

\* a get came back empty although the record of its id is in the collection,
\* its expires being exactly the Date of the read
C3_Witness ==
  \E p \in Slots :
    /\ Completed(p) /\ calls[p].op = "get" /\ calls[p].date # NoDate
    /\ calls[p].found = <<>>
    /\ Sequential /\ ncalls = 2
    /\ docs[Key(p)] # <<>>
    /\ docs[Key(p)][1].expires = calls[p].date

(***************************************************************************)
(* C4: when decryption fails during get, the callback receives the error   *)
(* and nothing else happens: no success callback, no 'get' notification.   *)
(* Violated: after callback(error) at line 246 execution falls through to  *)
(* lines 249-255.                                                          *)
(***************************************************************************)
C4_DecryptFailureIsOnlyAnError ==
  \A p \in Slots :
    (Completed(p) /\ calls[p].op = "get" /\ CipherFailed(calls[p]))
    => calls[p].out = <<CallbackError("cipher")>>

(***************************************************************************)
(* C5: when the cipher fails during set, the callback receives the error,  *)
(* the collection is left as it was and no 'create', 'update' or 'set' is  *)
(* emitted.  Violated: after callback(error) at line 313 execution falls   *)
(* through to the upsert of lines 316-331, with the payload unencrypted.   *)
(***************************************************************************)
C5_EncryptFailureWritesNothing ==
  [][\A p \in Slots :
       (calls'[p] # calls[p] /\ calls'[p].op = "set" /\ CipherFailed(calls'[p]))
       => /\ docs' = docs
          /\ calls'[p].out = <<CallbackError("cipher")>>]_vars

(***************************************************************************)
(* C6: a touch that the store answers while its id has no record, or only  *)
(* a record whose expires is <= the Date of the call, ends in the          *)
(* not-found error and leaves the id unreadable.  Violated: the update of  *)
(* lines 376-380 matches on _id alone, so it rewrites the expires of an    *)
(* expired record that is not yet reclaimed and reports success.           *)
(***************************************************************************)
C6_TouchOfDeadSessionIsNotFound ==
  [][\A p \in Slots :
       LET key == computeStorageId(calls'[p].sid) IN
       (Completes(p, "touch") /\ Answered(calls'[p])
          /\ (docs[key] = <<>> \/ ~NotExpired(docs[key][1], calls'[p].date)))
       => /\ Callbacks(calls'[p]) = <<CallbackError("notfound")>>
          /\ ~(docs'[key] # <<>> /\ NotExpired(docs'[key][1], now'))]_vars

(***************************************************************************)
(* C7: with touchAfter = N > 0, a touch whose payload carries a            *)
(* lastModified less than N seconds before the call never reaches the      *)
(* update: it is complete as soon as it is called, with one success        *)
(* callback and no 'touch' notification, and the step that makes the call  *)
(* leaves the collection as it was.                                        *)
(***************************************************************************)
RecentTouch(c) ==
  /\ c.op = "touch"
  /\ options.touchAfter > 0
  /\ c.session.lastModified # NoDate
  /\ c.date - c.session.lastModified < options.touchAfter * 1000

C7_RecentTouchWritesNothing ==
  /\ [](\A p \in Slots :
          RecentTouch(calls[p])
          => Completed(p) /\ calls[p].out = <<CallbackValue(<<>>)>>)
  /\ [][\A p \in Slots :
          (calls'[p] # calls[p] /\ RecentTouch(calls'[p]))
          => docs' = docs /\ collection' = collection]_vars

\* a record written at T0 = Epoch is touched half a threshold later
C7_Witness ==
  \E p \in Slots :
    /\ Completed(p) /\ RecentTouch(calls[p])
    /\ Sequential /\ ncalls = 2
    /\ calls[p].date = Epoch + TickMs
    /\ docs[Key(p)] # <<>>
    /\ docs[Key(p)][1].lastModified = Epoch
    /\ calls[p].session.lastModified = Epoch
    /\ calls[p].out = <<CallbackValue(<<>>)>>

(***************************************************************************)
(* C8: with touchAfter = N > 0, a touch answered by the store on a record  *)
(* that exists and is not expired, its payload's lastModified (0 when      *)
(* absent) being at least N seconds back, leaves the record with           *)
(* lastModified = the Date of the call and expires = the cookie's expiry   *)
(* if the payload has one, else that Date + ttl.  Violated: the guard      *)
(* lastModified > 0 of line 360 keeps updateFields.lastModified unset for  *)
(* a payload without lastModified.                                         *)
(***************************************************************************)
C8_StaleTouchRefreshesLastModified ==
  [][\A p \in Slots :
       (At(p, "touch", "write") /\ Completes(p, "touch") /\ Answered(calls'[p])
          /\ options.touchAfter > 0
          /\ Live(Key(p))
          /\ calls[p].date - calls[p].session.lastModified
               >= options.touchAfter * 1000)
       => /\ docs'[Key(p)] # <<>>
          /\ docs'[Key(p)][1].lastModified = calls[p].date
          /\ docs'[Key(p)][1].expires =
               IF CookieExpires(calls[p].session) # NoDate
               THEN CookieExpires(calls[p].session)
               ELSE calls[p].date + options.ttl * 1000]_vars

(***************************************************************************)
(* C9: a set whose upsert the store applies emits 'create' when no record  *)
(* had its storage key at that moment and 'update' otherwise, then 'set',  *)
(* then invokes the success callback, in this order.                       *)
(***************************************************************************)
C9_CreateOrUpdateThenSet ==
  [][\A p \in Slots :
       (At(p, "set", "write") /\ Completes(p, "set") /\ Answered(calls'[p]))
       => calls'[p].out =
            calls[p].out \o
            <<Emitted(IF docs[Key(p)] = <<>> THEN "create" ELSE "update"),
              Emitted("set"), CallbackValue(<<>>)>>]_vars

\* the second of two sets in a row found the record of the first
C9_Witness ==
  \E p \in Slots :
    /\ Completed(p) /\ calls[p].op = "set"
    /\ Sequential /\ ncalls = 2
    /\ calls[p].out = <<Emitted("update"), Emitted("set"), CallbackValue(<<>>)>>

(***************************************************************************)
(* C10: the record a set writes has expires = the cookie's expiry when the *)
(* payload's cookie has one, and otherwise the Date of the set + ttl       *)
(* seconds, ttl being 1209600 when the caller configured none; no record   *)
(* in the collection is without expires.                                   *)
(***************************************************************************)
ConfiguredTtl == IF options \in EdgeOptions THEN 1209600 ELSE 1

C10_SetStoresExpires ==
  /\ [](\A k \in Keys : docs[k] # <<>> => docs[k][1].expires # NoDate)
  /\ [][\A p \in Slots :
          (At(p, "set", "write") /\ Completes(p, "set") /\ Answered(calls'[p]))
          => /\ docs'[Key(p)] # <<>>
             /\ docs'[Key(p)][1].expires =
                  IF CookieExpires(calls[p].session) # NoDate
                  THEN CookieExpires(calls[p].session)
                  ELSE calls[p].date + ConfiguredTtl * 1000]_vars

\* a set without cookie expiry, made one tick after construction under the
\* default ttl, has stored its record
C10_Witness ==
  \E p \in Slots :
    /\ Completed(p) /\ calls[p].op = "set" /\ Sequential /\ ncalls = 1
    /\ options \in EdgeOptions
    /\ calls[p].date = Epoch + TickMs
    /\ calls[p].out = <<Emitted("create"), Emitted("set"), CallbackValue(<<>>)>>
    /\ docs[Key(p)] # <<>>
    /\ docs[Key(p)][1].expires = Epoch + TickMs + 1209600000

(***************************************************************************)
(* Vocabulary of the round trip.                                           *)
(***************************************************************************)
\* the payloads a caller may hand to set
SetPayloads == PayloadsOf({"u1"}, DatedCookies(Cookies \cup RichCookies), {NoDate, Epoch})
\* the plain form of a cookie
PlainCookie(cookie) ==
  IF cookie = <<>> THEN <<>> ELSE <<[rich |-> FALSE, expires |-> cookie[1].expires]>>
JsonMode == ~options.serialize /\ ~options.unserialize /\ options.stringify
CopyMode == ~options.serialize /\ ~options.unserialize /\ ~options.stringify
CustomPair == options.serialize /\ options.unserialize
\* slot p completes a get that read the record set(sid, P) stored
GetReadsWhatSetStored(p, P) ==
  /\ At(p, "get", "find") /\ Completes(p, "get") /\ Answered(calls'[p])
  /\ ~options.secret
  /\ JsonMode \/ CopyMode \/ CustomPair
  /\ calls'[p].found # <<>>
  /\ calls'[p].found[1].session = serialize(StripLastModified(P))
\* P with its cookie in plain form, plus the lastModified of the record when
\* touchAfter > 0
Returned(P, record) ==
  [user |-> P.user,
   cookie |-> PlainCookie(P.cookie),
   lastModified |-> IF options.touchAfter > 0 THEN record.lastModified ELSE P.lastModified,
   iso |-> FALSE]
\* P holds a Date that set serializes: the expiry of its cookie, or a
\* lastModified that set does not strip
SerializesDate(P) ==
  \/ CookieExpires(P) # NoDate
  \/ options.touchAfter = 0 /\ P.lastModified # NoDate

(***************************************************************************)
(* C11 as written: without encryption, in JSON, copy and custom-pair mode, *)
(* a get that reads the record set(sid, P) stored succeeds with P, its     *)
(* cookie in plain form, plus the record's lastModified when touchAfter >  *)
(* 0.  Violated in JSON mode: a Date inside P comes back as text.          *)
(***************************************************************************)
C11_GetReturnsWhatSetStored ==
  [][\A p \in Slots, P \in SetPayloads :
       GetReadsWhatSetStored(p, P)
       => calls'[p].out =
            <<Emitted("get"), CallbackValue(<<Returned(P, calls'[p].found[1])>>)>>]_vars

(***************************************************************************)
(* C11 amended: the same, except that in JSON mode the Dates that were     *)
(* serialized with P (its cookie's expires, its own lastModified when      *)
(* touchAfter = 0) come back as the text JSON.stringify made of them.      *)
(***************************************************************************)
C11_GetReturnsWhatSetStoredDatesAsText ==
  [][\A p \in Slots, P \in SetPayloads :
       GetReadsWhatSetStored(p, P)
       => calls'[p].out =
            <<Emitted("get"),
              CallbackValue(<<[Returned(P, calls'[p].found[1])
                                 EXCEPT !.iso = JsonMode /\ SerializesDate(P)]>>)>>]_vars

\* in JSON mode with touchAfter > 0, a session stored at Epoch with a cookie
\* that expires was read back at once: the expiry is text, lastModified is
\* the record's
C11_Witness ==
  \E p \in Slots :
    /\ Completed(p) /\ calls[p].op = "get" /\ Sequential /\ ncalls = 2
    /\ JsonMode /\ options.touchAfter > 0 /\ ~options.secret
    /\ calls[p].out =
         <<Emitted("get"),
           CallbackValue(<<[user |-> "u1",
                            cookie |-> <<[rich |-> FALSE, expires |-> CookieExpiry]>>,
                            lastModified |-> Epoch, iso |-> TRUE]>>)>>

(***************************************************************************)
(* C12: a destroy that the store answers ends in the 'destroy'             *)
(* notification and one success callback whether or not its id had a       *)
(* record, leaves no record under its storage key and leaves every other   *)
(* record as it was; a get of the same id that reads after the destroy has *)
(* completed, while no record is back under the key, succeeds with null.   *)
(* Violated through the bug of C1: with touchAfter > 0 the get of the      *)
(* destroyed id ends in callback(TypeError) (line 251).                    *)
(***************************************************************************)
C12_DestroyRemovesTheSession ==
  [][\A p \in Slots :
       /\ (At(p, "destroy", "delete") /\ Completes(p, "destroy") /\ Answered(calls'[p]))
          => /\ calls'[p].out = <<Emitted("destroy"), CallbackValue(<<>>)>>
             /\ docs'[Key(p)] = <<>>
             /\ \A k \in Keys \ {Key(p)} : docs'[k] = docs[k]
       /\ (At(p, "get", "find") /\ Completes(p, "get") /\ Answered(calls'[p])
             /\ docs[Key(p)] = <<>>
             /\ \E q \in Slots :
                  /\ Completed(q) /\ calls[q].op = "destroy" /\ Answered(calls[q])
                  /\ calls[q].sid = calls[p].sid)
          => calls'[p].out = <<Emitted("get"), CallbackValue(<<>>)>>]_vars

(***************************************************************************)
(* C13: length hands to its callback the number of records that are in the *)
(* collection at the moment of the count, expired ones included; a clear   *)
(* that succeeds leaves no record, the collection stays empty until a set  *)
(* writes, and on the empty collection length gives 0 and all gives the    *)
(* empty sequence.                                                         *)
(***************************************************************************)
Present == {k \in Keys : docs[k] # <<>>}

C13_LengthCountsEveryRecord ==
  [][/\ \A p \in Slots :
          /\ (At(p, "length", "count") /\ Completes(p, "length") /\ Answered(calls'[p]))
             => calls'[p].out = <<CallbackValue(<<Cardinality(Present)>>)>>
          /\ (At(p, "clear", "drop") /\ Completes(p, "clear")
                /\ calls'[p].out = <<CallbackValue(<<>>)>>)
             => \A k \in Keys : docs'[k] = <<>>
          /\ (At(p, "all", "find") /\ Completes(p, "all") /\ Answered(calls'[p])
                /\ Present = {})
             => calls'[p].out = <<Emitted("all"), CallbackValue(<< <<>> >>)>>
     /\ (Present = {} /\ \A p \in Slots : ~(At(p, "set", "write") /\ Completes(p, "set")))
        => \A k \in Keys : docs'[k] = <<>>]_vars

\* a session was stored at or after the expiry its cookie names, and a
\* length made after that counted it
C13_Witness ==
  \E p \in Slots :
    /\ Completed(p) /\ calls[p].op = "length" /\ Sequential /\ ncalls = 2
    /\ calls[p].out = <<CallbackValue(<<1>>)>>
    /\ docs[computeStorageId("a")] # <<>>
    /\ docs[computeStorageId("a")][1].expires = CookieExpiry
    /\ docs[computeStorageId("a")][1].lastModified >= CookieExpiry

(***************************************************************************)
(* Vocabulary of the transform pair: what a set that has just been called  *)
(* serialized, and what a get that succeeded without encryption            *)
(* unserialized.                                                           *)
(***************************************************************************)
SetSerializes(p) ==
  /\ Free(p) /\ calls'[p] # calls[p]
  /\ calls'[p].op = "set"
GetUnserializes(p) ==
  /\ At(p, "get", "find") /\ Completes(p, "get")
  /\ ~options.secret
  /\ calls'[p].found # <<>>
  /\ Len(calls'[p].out) = 2 /\ calls'[p].out[1] = Emitted("get")
\* what get hands over of an unserialized payload u read from record
Handed(u, record) ==
  IF options.touchAfter > 0 /\ record.lastModified # NoDate /\ "lastModified" \in DOMAIN u
  THEN [u EXCEPT !.lastModified = record.lastModified]
  ELSE u

(***************************************************************************)
(* C14 as written: if the caller gives serialize and/or unserialize those  *)
(* are used and the one not given is the identity; else if stringify is    *)
(* false, the structural copy with the identity; else JSON.stringify and   *)
(* JSON.parse.  Violated: when only unserialize is given, serialize is the *)
(* structural copy (line 104), which turns a Cookie into its plain form.   *)
(***************************************************************************)
C14_MissingTransformIsIdentity ==
  [][\A p \in Slots :
       /\ SetSerializes(p)
          => calls'[p].s.session[1] =
               IF options.serialize \/ options.unserialize
               THEN IF options.serialize
                    THEN customSerialize(calls'[p].session)
                    ELSE unit(calls'[p].session)
               ELSE IF options.stringify = FALSE
                    THEN defaultSerializeFunction(calls'[p].session)
                    ELSE JSONstringify(calls'[p].session)
       /\ GetUnserializes(p)
          => calls'[p].out[2] =
               CallbackValue(<<Handed(
                 IF options.serialize \/ options.unserialize
                 THEN IF options.unserialize
                      THEN customUnserialize(calls'[p].found[1].session)
                      ELSE unit(calls'[p].found[1].session)
                 ELSE IF options.stringify = FALSE
                      THEN unit(calls'[p].found[1].session)
                      ELSE JSONparse(calls'[p].found[1].session),
                 calls'[p].found[1])>>)]_vars

(***************************************************************************)
(* C14 amended: the same priority, but of a caller's pair only a missing   *)
(* unserialize is the identity; a missing serialize is the structural-copy *)
(* serializer.                                                             *)
(***************************************************************************)
C14_MissingSerializeIsTheCopy ==
  [][\A p \in Slots :
       /\ SetSerializes(p)
          => calls'[p].s.session[1] =
               IF options.serialize \/ options.unserialize
               THEN IF options.serialize
                    THEN customSerialize(calls'[p].session)
                    ELSE defaultSerializeFunction(calls'[p].session)
               ELSE IF options.stringify = FALSE
                    THEN defaultSerializeFunction(calls'[p].session)
                    ELSE JSONstringify(calls'[p].session)
       /\ GetUnserializes(p)
          => calls'[p].out[2] =
               CallbackValue(<<Handed(
                 IF options.serialize \/ options.unserialize
                 THEN IF options.unserialize
                      THEN customUnserialize(calls'[p].found[1].session)
                      ELSE unit(calls'[p].found[1].session)
                 ELSE IF options.stringify = FALSE
                      THEN unit(calls'[p].found[1].session)
                      ELSE JSONparse(calls'[p].found[1].session),
                 calls'[p].found[1])>>)]_vars

\* only unserialize was given, stringify left on: a set holding a Cookie
\* instance is about to write the copy with the plain cookie
C14_Witness ==
  \E p \in Slots :
    /\ At(p, "set", "write")
    /\ options.unserialize /\ ~options.serialize /\ options.stringify
    /\ calls[p].session.cookie # <<>>
    /\ calls[p].session.cookie[1].rich
    /\ calls[p].s.session[1] =
         [calls[p].session EXCEPT !.cookie = PlainCookie(calls[p].session.cookie)]

(***************************************************************************)
(* C15: with encryption on, a touch that succeeds on a record whose        *)
(* payload field is ciphertext leaves it ciphertext; together with set,    *)
(* which writes what the cipher returned, every payload field written by   *)
(* successful calls is ciphertext.  Violated: touch with a cookie expiry   *)
(* writes serialize(session) as it is (line 371), never passing it to the  *)
(* cipher.                                                                 *)
(***************************************************************************)
C15_PayloadFieldStaysCiphertext ==
  [][\A p \in Slots :
       /\ (At(p, "set", "write") /\ Completes(p, "set") /\ Answered(calls'[p])
             /\ options.secret /\ ~CipherFailed(calls'[p]))
          => Kind(docs'[Key(p)][1].session) = "cipher"
       /\ (At(p, "touch", "write") /\ Completes(p, "touch")
             /\ Callbacks(calls'[p]) = <<CallbackValue(<<>>)>>
             /\ options.secret
             /\ docs[Key(p)] # <<>> /\ Kind(docs[Key(p)][1].session) = "cipher")
          => /\ docs'[Key(p)] # <<>>
             /\ Kind(docs'[Key(p)][1].session) = "cipher"]_vars

(***************************************************************************)
(* C16: a touch that reaches the update while a record of its storage key  *)
(* exists and is not expired never ends in the not-found error, also when  *)
(* the update sets expires (and the payload) to the values the record      *)
(* holds already; the not-found error is reported only when no record has  *)
(* the storage key.  Violated: line 381 tests modifiedCount, which is 0    *)
(* when the record matched and the $set changed nothing.                   *)
(***************************************************************************)
C16_NotFoundOnlyWithoutRecord ==
  [][\A p \in Slots :
       (At(p, "touch", "write") /\ Completes(p, "touch")
          /\ Callbacks(calls'[p]) = <<CallbackError("notfound")>>)
       => docs[Key(p)] = <<>>]_vars

(***************************************************************************)
(* C17: the step in which a touch reaches the store changes at most the    *)
(* record of its own storage key: no record appears where there was none,  *)
(* the record stays, every other record and the collection are as before,  *)
(* and the payload field is as before when the cookie of the touch payload *)
(* names no expiry; calling touch changes nothing in the store.            *)
(***************************************************************************)
C17_TouchIsAPartialUpdate ==
  [][\A p \in Slots :
       /\ (At(p, "touch", "write") /\ calls'[p] # calls[p])
          => /\ \A k \in Keys \ {Key(p)} : docs'[k] = docs[k]
             /\ collection' = collection
             /\ docs[Key(p)] = <<>> => docs'[Key(p)] = <<>>
             /\ docs[Key(p)] # <<>>
                  => /\ docs'[Key(p)] # <<>>
                     /\ CookieExpires(calls[p].session) = NoDate
                          => docs'[Key(p)][1].session = docs[Key(p)][1].session
       /\ (Free(p) /\ calls'[p] # calls[p] /\ calls'[p].op = "touch")
          => docs' = docs /\ collection' = collection]_vars

\* a touch found no record under its key (its id was destroyed meanwhile, or
\* never stored): it ended in not-found and there is still no record
C17_Witness ==
  \E p, q \in Slots :
    /\ Completed(p) /\ calls[p].op = "touch"
    /\ Callbacks(calls[p]) = <<CallbackError("notfound")>>
    /\ Completed(q) /\ calls[q].op = "destroy" /\ calls[q].sid = calls[p].sid
    /\ calls[q].out = <<Emitted("destroy"), CallbackValue(<<>>)>>
    /\ docs[Key(p)] = <<>>

(***************************************************************************)
(* C18: the serialized payload held by a record never has a lastModified   *)
(* field, whatever touchAfter is.  Violated: with touchAfter > 0, touch    *)
(* with a cookie expiry serializes the payload as the caller holds it      *)
(* (line 371), lastModified included (get itself put it there, line 252);  *)
(* and set strips lastModified only when touchAfter > 0 (line 277).        *)
(***************************************************************************)
\* the payload inside a stored payload field
StoredPayload(x) ==
  LET y == IF Kind(x) = "cipher" THEN x.val ELSE x
  IN  IF Kind(y) \in {"text", "custom"} THEN y.val ELSE y

C18_StoredPayloadHasNoLastModified ==
  \A k \in Keys :
    docs[k] # <<>> => StoredPayload(docs[k][1].session).lastModified = NoDate

(***************************************************************************)
(* C19: whenever the store applies the upsert of a set that succeeds, the  *)
(* one record of the storage key has its payload, its expires and its      *)
(* lastModified from that set call alone, whatever other set calls on the  *)
(* same id are under way or have written before; so after concurrent sets  *)
(* the record is the one of the set applied last.                          *)
(***************************************************************************)
\* the record that the set in slot p builds from its own arguments
RecordOfSet(p) ==
  [session |-> IF options.secret
               THEN Cipher(serialize(calls[p].session))
               ELSE serialize(calls[p].session),
   expires |-> IF CookieExpires(calls[p].session) # NoDate
               THEN CookieExpires(calls[p].session)
               ELSE calls[p].date + options.ttl * 1000,
   lastModified |-> IF options.touchAfter > 0 THEN calls[p].date ELSE NoDate]

C19_RecordIsOfOneSet ==
  [][\A p \in Slots :
       (At(p, "set", "write") /\ Completes(p, "set") /\ Answered(calls'[p])
          /\ ~CipherFailed(calls'[p]))
       => docs'[Key(p)] = <<RecordOfSet(p)>>]_vars

\* two sets on one id overlapped and both succeeded; the one called first
\* was applied last, and the record carries its date and its expiry
C19_Witness ==
  /\ \A p \in Slots :
       /\ Completed(p) /\ calls[p].op = "set"
       /\ Len(calls[p].out) = 3 /\ calls[p].out[2] = Emitted("set")
  /\ calls[1].sid = calls[2].sid
  /\ ncalls = 2
  /\ options.touchAfter > 0
  /\ calls[1].date < calls[2].date
  /\ docs[Key(1)] # <<>>
  /\ docs[Key(1)][1].lastModified = calls[1].date
  /\ docs[Key(1)][1].expires = calls[1].date + options.ttl * 1000

(***************************************************************************)
(* C20: in a store constructed with createAutoRemoveIdx, a record whose    *)
(* expires has passed does not stay: it is reclaimed (or set or touched    *)
(* again), provided the TTL monitor is fair to collections that have the   *)
(* index.  Violated: clear() drops the collection and its index with it    *)
(* (line 473), createIndex is called by the constructor alone (lines       *)
(* 185-190), and the collection that the next set brings back has no       *)
(* expiry index.                                                           *)
(***************************************************************************)
Expired(k) ==
  /\ docs[k] # <<>>
  /\ docs[k][1].expires # NoDate
  /\ docs[k][1].expires <= now

C20_ExpiredIsEventuallyReclaimed ==
  \A k \in Keys :
    (options.createAutoRemoveIdx /\ Expired(k)) ~> ~Expired(k)

====
